---- MODULE Spec2Model ----
(***************************************************************************)
(* LSB steganography script (src/steganography.py).                        *)
(*                                                                         *)
(* One run of the script is a straight-line program; pc is its position.   *)
(* Buffers are flat sequences of uint8 (TLA+ index k+1 is numpy index k)   *)
(* with the shape kept beside them.  The image decode/encode library calls *)
(* are the two collaborator steps: a load yields some buffer of the        *)
(* enumerated input family, a save stores the buffer bit-exactly (the      *)
(* encoder is taken to accept every shape it is handed).  The faulty       *)
(* variants defined beside some operators serve to test that a property    *)
(* depends on the operator.                                                *)
(***************************************************************************)
EXTENDS Integers, Sequences, FiniteSets, TLC

VARIABLES
    mode,        \* args.mode
    args,        \* extension of every path argument, by role
    pc,          \* position in the script
    outcome,     \* "Running" or how the run ended
    status,      \* process exit status, -1 while running
    image,       \* flattened working buffer (carrier / input image)
    i_shape,     \* carrier shape (embed only)
    i_size,      \* image.size
    secret,      \* secret bytes, then the payload stream (header ++ bytes)
    s_shape,     \* secret shape
    s_size,      \* payload size (embed) / h*w*c (extract)
    exp_secret,  \* expanded payload bits
    metadata,    \* 5 decoded header bytes (extract)
    data,        \* reconstructed secret (extract)
    outfile,     \* what this run saved to --output
    stego,       \* file left by an earlier embed run, read by a later extract
    loaded,      \* history: the carrier / input image as the loader returned it
    hidden       \* history: the secret as the image loader returned it

vars == <<mode, args, pc, outcome, status, image, i_shape, i_size, secret,
          s_shape, s_size, exp_secret, metadata, data, outfile, stego,
          loaded, hidden>>

----------------------------------------------------------------------------
(* Program constants *)

Byte == 256          \* uint8 range; the 256 of the header split
HeaderLen == 5       \* header bytes
BitsPerByte == 8     \* elements used per payload byte
LsbClearMask == 254  \* image[:n] &= 254

(* Bounds of the enumerated inputs *)

MaxSide == 2         \* secret height and width range over 1..MaxSide
MaxSlack == 1        \* carrier sizes lie within MaxSlack of a capacity threshold
Huge == 16777216     \* sizes are exact below Huge

----------------------------------------------------------------------------
(* uint8 arithmetic *)

Min(a, b) == IF a < b THEN a ELSE b

RECURSIVE BitAnd(_, _)
BitAnd(a, b) ==
    IF a = 0 \/ b = 0 THEN 0
    ELSE (a % 2) * (b % 2) + 2 * BitAnd(a \div 2, b \div 2)

RECURSIVE BitOr(_, _)
BitOr(a, b) ==
    IF a = 0 THEN b
    ELSE IF b = 0 THEN a
    ELSE (IF a % 2 = 1 \/ b % 2 = 1 THEN 1 ELSE 0) + 2 * BitOr(a \div 2, b \div 2)

(* faulty variants of the two shifts: the bit order within a byte reversed *)
Shr_msb_first(a, j) == a \div (2 ^ (7 - j))
Shl_msb_first(a, j) == (a * (2 ^ (7 - j))) % Byte

Shr(a, j) == a \div (2 ^ j)
Shl(a, j) == (a * (2 ^ j)) % Byte

(* Python integers are unbounded.  A size above Huge is held as Huge: no   *)
(* buffer of the model is that long, so every comparison of a size with a  *)
(* buffer length comes out as it does on the exact value.                  *)
Mul(a, b) == IF b > 0 /\ a > Huge \div b THEN Huge ELSE a * b

RECURSIVE Prod(_)
Prod(shape) == IF shape = <<>> THEN 1 ELSE Mul(Head(shape), Prod(Tail(shape)))

(* buf[lo:hi] with numpy's clipping of the slice bounds *)
Slice(buf, lo, hi) == SubSeq(buf, Min(lo, Len(buf)) + 1, Min(hi, Len(buf)))

(* An in-place binary ufunc  view OP= operand : the operand must broadcast *)
(* to the shape of the view (equal length, or length 1).                   *)
InPlaceOk(viewLen, operandLen) == operandLen = viewLen \/ operandLen = 1

(* np.tile(np.arange(0,8,1), size) *)
Shifts(size) == [k \in 1..(BitsPerByte * size) |-> (k - 1) % BitsPerByte]

(* np.repeat(buf, 8) *)
Repeat8(buf) ==
    [k \in 1..(BitsPerByte * Len(buf)) |-> buf[((k - 1) \div BitsPerByte) + 1]]

----------------------------------------------------------------------------
(* File type gate *)

supported_formats_all ==
    {"png", "bmp", "tiff", "ppm", "pgm", "pbm", "jpg", "jpeg", "webp"}
supported_formats_lossless == {"png", "bmp", "tiff", "ppm", "pgm", "pbm"}

(* faulty variant: the lossy_allowed flag ignored *)
check_file_type_any(ext, lossy_allowed) == ext \in supported_formats_all

(* TRUE when check_file_type returns, FALSE when it prints and exits *)
check_file_type(ext, lossy_allowed) ==
    ext \in (IF lossy_allowed THEN supported_formats_all
                              ELSE supported_formats_lossless)

----------------------------------------------------------------------------
(* Header codec and bit expander (embed) *)

(* np.array((h//256, h%256, w//256, w%256, c), dtype=np.uint8) *)
encode_header(shape) ==
    << (shape[1] \div Byte) % Byte, shape[1] % Byte,
       (shape[2] \div Byte) % Byte, shape[2] % Byte,
       shape[3] % Byte >>

(* a 2-D (grayscale) shape gets a third dimension of 1 *)
normalise_shape(shape) == IF Len(shape) = 2 THEN shape \o <<1>> ELSE shape

(* repeat, >>= shifts, &= 1 *)
expand(payload) ==
    LET rep == Repeat8(payload)
        shifts == Shifts(Len(payload))
    IN [k \in 1..Len(rep) |-> BitAnd(Shr(rep[k], shifts[k]), 1)]

(* faulty variants: the boundary taken as too large; the factor 8 forgotten *)
secret_too_large_inclusive(isz, ssz) == isz <= ssz * BitsPerByte
secret_too_large_bytes(isz, ssz) == isz < ssz

(* i_size < s_size*8 *)
secret_too_large(isz, ssz) == isz < ssz * BitsPerByte

(* faulty variant: the two low bits cleared (mask 252) *)
clear_low_two(buf, n) ==
    [k \in 1..Len(buf) |->
        IF k <= Min(n, Len(buf)) THEN BitAnd(buf[k], 252) ELSE buf[k]]

(* image[:n] &= 254 *)
clear_lsb(buf, n) ==
    [k \in 1..Len(buf) |->
        IF k <= Min(n, Len(buf)) THEN BitAnd(buf[k], LsbClearMask) ELSE buf[k]]

(* image[:n] |= bits ; the result when the shapes broadcast *)
or_bits(buf, n, bits) ==
    [k \in 1..Len(buf) |->
        IF k <= Min(n, Len(buf))
        THEN BitOr(buf[k], IF Len(bits) = 1 THEN bits[1] ELSE bits[k])
        ELSE buf[k]]

----------------------------------------------------------------------------
(* Bit compactor and header decode (extract) *)

(* faulty variant: the mask forgotten *)
mask_none(view) == view

(* data &= 1 *)
mask_lsb(view) == [k \in 1..Len(view) |-> BitAnd(view[k], 1)]

(* data <<= shifts ; the result when the shapes broadcast *)
shift_left(view, shifts) ==
    [k \in 1..Len(view) |->
        Shl(view[k], IF Len(shifts) = 1 THEN shifts[1] ELSE shifts[k])]

(* data.reshape((size,8)).sum(axis=1, dtype=np.uint8) *)
sum_rows(view, size) ==
    LET at(i, j) == view[BitsPerByte * (i - 1) + j]
    IN [i \in 1..size |->
           (at(i, 1) + at(i, 2) + at(i, 3) + at(i, 4)
            + at(i, 5) + at(i, 6) + at(i, 7) + at(i, 8)) % Byte]

(* compact(data, size) on a view of the working buffer.  data &= 1 runs     *)
(* first and always succeeds; data <<= shifts raises when the shapes do    *)
(* not broadcast.  view is the content of the view afterwards, either way. *)
compact(view, size) ==
    IF ~InPlaceOk(Len(view), BitsPerByte * size)
    THEN [ok |-> FALSE, view |-> mask_lsb(view), out |-> <<>>]
    ELSE LET shifted == shift_left(mask_lsb(view), Shifts(size))
         IN [ok |-> TRUE, view |-> shifted, out |-> sum_rows(shifted, size)]

(* the working buffer after a view lo..hi of it was written in place *)
write_back(buf, lo, view) ==
    [k \in 1..Len(buf) |->
        IF k > lo /\ k <= lo + Len(view) THEN view[k - lo] ELSE buf[k]]

(* faulty variant: the two bytes of a dimension read low byte first *)
decode_header_low_first(md) == << md[1] + md[2] * Byte, md[3] + md[4] * Byte, md[5] >>

decode_header(md) == << md[1] * Byte + md[2], md[3] * Byte + md[4], md[5] >>

(* ndarray.reshape(shape): possible exactly when the sizes agree *)
reshape_ok(buf, shape) == Len(buf) = Prod(shape)

----------------------------------------------------------------------------
(* Enumerated inputs *)

Exts == {"png", "jpg", "gif"}

Pattern(seed, k) == ((2 * seed + 37) * k + 101 * seed + 5) % Byte
Seeds == {0, 1}

Channels == {3}
SecretShapes ==
    {<<h, w>> : h \in 1..MaxSide, w \in 1..MaxSide}
    \cup {<<h, w, c>> : h \in 1..MaxSide, w \in 1..MaxSide, c \in Channels}

Required(n) == BitsPerByte * (HeaderLen + n)

CarrierSizes ==
    {Required(Prod(sh)) + d : sh \in SecretShapes, d \in (0 - MaxSlack)..MaxSlack}

CarrierShape(n) == IF n % 3 = 0 THEN <<n \div 3, 1, 3>> ELSE <<n, 1>>

NoFile == [shape |-> <<>>, buf |-> <<>>, none |-> TRUE]
File(shape, buf) == [shape |-> shape, buf |-> buf, none |-> FALSE]

PatternBuf(n, seed) == [k \in 1..n |-> Pattern(seed, k - 1)]

(* Input images of extract that no embed run produced: any 5 bytes may sit  *)
(* in the first 40 LSBs, over any upper bits, in a buffer of any size.      *)
HeaderBits == BitsPerByte * HeaderLen
HighBytes == {0, 255}
LowBytes == 0..MaxSide
ChannelBytes == {0, 1, 3}
RawHeaders ==
    {<<hh, hl, wh, wl, c>> : hh \in HighBytes, hl \in LowBytes,
                             wh \in HighBytes, wl \in LowBytes, c \in ChannelBytes}
ImageSizes == CarrierSizes \cup {1, HeaderBits - 1, HeaderBits}

HeaderBit(hdr, k) == (hdr[((k - 1) \div BitsPerByte) + 1] \div (2 ^ ((k - 1) % BitsPerByte))) % 2

RawImage(n, hdr, seed) ==
    [k \in 1..n |->
        IF k <= HeaderBits
        THEN 2 * (Pattern(seed, k - 1) \div 2) + HeaderBit(hdr, k)
        ELSE Pattern(seed, k - 1)]

(* Shapes for the header codec on its own: every byte of the header at the *)
(* ends and in the middle of its range.                                    *)
EdgeBytes == {0, 1, 127, 128, 255}
HeaderShapes ==
    {<<a * Byte + b, c * Byte + d, e>> :
        a \in EdgeBytes, b \in EdgeBytes, c \in EdgeBytes, d \in EdgeBytes,
        e \in EdgeBytes}

----------------------------------------------------------------------------
Fresh ==
    /\ outcome = "Running" /\ status = -1
    /\ image = <<>> /\ i_shape = <<>> /\ i_size = 0
    /\ secret = <<>> /\ s_shape = <<>> /\ s_size = 0
    /\ exp_secret = <<>> /\ metadata = <<>> /\ data = <<>>
    /\ outfile = NoFile /\ loaded = NoFile

InitEmbed ==
    /\ mode = "embed"
    /\ args \in [carrier : Exts, secret : Exts, output : Exts]
    /\ pc = "check_carrier"
    /\ Fresh
    /\ stego = NoFile /\ hidden = NoFile

InitExtract ==
    /\ mode = "extract"
    /\ args \in [image : Exts, output : Exts]
    /\ pc = "check_image"
    /\ Fresh
    /\ stego = NoFile /\ hidden = NoFile

Init == InitEmbed \/ InitExtract

(* exit(1) after a message *)
Abort(kind) ==
    /\ outcome' = kind /\ status' = 1 /\ pc' = "exit"

Buffers == <<image, i_shape, i_size, secret, s_shape, s_size, exp_secret,
             metadata, data>>
History == <<loaded, hidden, stego>>

Gate(at, role, lossy_allowed, next) ==
    /\ pc = at
    /\ IF check_file_type(args[role], lossy_allowed)
       THEN pc' = next /\ UNCHANGED <<outcome, status>>
       ELSE Abort("UnsupportedFileType")
    /\ UNCHANGED <<mode, args, Buffers, outfile, History>>

CheckCarrier == mode = "embed" /\ Gate("check_carrier", "carrier", TRUE, "check_secret")
CheckSecret == mode = "embed" /\ Gate("check_secret", "secret", TRUE, "check_embed_output")
CheckEmbedOutput ==
    mode = "embed" /\ Gate("check_embed_output", "output", FALSE, "load_carrier")

LoadCarrier ==
    /\ mode = "embed" /\ pc = "load_carrier"
    /\ \E n \in CarrierSizes, seed \in Seeds :
          /\ image' = PatternBuf(n, seed)
          /\ i_shape' = CarrierShape(n)
          /\ i_size' = n
          /\ loaded' = File(CarrierShape(n), PatternBuf(n, seed))
    /\ pc' = "load_secret"
    /\ UNCHANGED <<mode, args, outcome, status, secret, s_shape, s_size,
                   exp_secret, metadata, data, outfile, hidden, stego>>

LoadSecret ==
    /\ mode = "embed" /\ pc = "load_secret"
    /\ \E sh \in SecretShapes, seed \in Seeds :
          /\ secret' = PatternBuf(Prod(sh), seed + 2)
          /\ s_shape' = normalise_shape(sh)
          /\ hidden' = File(sh, PatternBuf(Prod(sh), seed + 2))
    /\ pc' = "build_payload"
    /\ UNCHANGED <<mode, args, outcome, status, image, i_shape, i_size, s_size,
                   exp_secret, metadata, data, outfile, loaded, stego>>

BuildPayload ==
    /\ mode = "embed" /\ pc = "build_payload"
    /\ secret' = encode_header(s_shape) \o secret
    /\ s_size' = HeaderLen + Len(secret)
    /\ pc' = "capacity"
    /\ UNCHANGED <<mode, args, outcome, status, image, i_shape, i_size, s_shape,
                   exp_secret, metadata, data, outfile, History>>

CapacityCheck ==
    /\ mode = "embed" /\ pc = "capacity"
    /\ IF secret_too_large(i_size, s_size)
       THEN Abort("SecretTooLarge")
       ELSE pc' = "expand" /\ UNCHANGED <<outcome, status>>
    /\ UNCHANGED <<mode, args, Buffers, outfile, History>>

Expand ==
    /\ mode = "embed" /\ pc = "expand"
    /\ exp_secret' = expand(secret)
    /\ pc' = "clear_lsb"
    /\ UNCHANGED <<mode, args, outcome, status, image, i_shape, i_size, secret,
                   s_shape, s_size, metadata, data, outfile, History>>

ClearLsb ==
    /\ mode = "embed" /\ pc = "clear_lsb"
    /\ image' = clear_lsb(image, s_size * BitsPerByte)
    /\ pc' = "or_bits"
    /\ UNCHANGED <<mode, args, outcome, status, i_shape, i_size, secret,
                   s_shape, s_size, exp_secret, metadata, data, outfile, History>>

(* an uncaught exception: traceback, exit status 1 *)
Raise ==
    /\ outcome' = "Fault" /\ status' = 1 /\ pc' = "exit"

OrBits ==
    /\ mode = "embed" /\ pc = "or_bits"
    /\ IF InPlaceOk(Min(s_size * BitsPerByte, Len(image)), Len(exp_secret))
       THEN /\ image' = or_bits(image, s_size * BitsPerByte, exp_secret)
            /\ pc' = "save"
            /\ UNCHANGED <<outcome, status>>
       ELSE Raise /\ UNCHANGED image
    /\ UNCHANGED <<mode, args, i_shape, i_size, secret, s_shape, s_size,
                   exp_secret, metadata, data, outfile, History>>

SaveEmbed ==
    /\ mode = "embed" /\ pc = "save"
    /\ IF reshape_ok(image, i_shape)
       THEN /\ outfile' = File(i_shape, image)
            /\ outcome' = "Done" /\ status' = 0 /\ pc' = "exit"
       ELSE Raise /\ UNCHANGED outfile
    /\ UNCHANGED <<mode, args, Buffers, History>>

----------------------------------------------------------------------------
(* extract *)

(* The file an embed run saved is handed to a new extract run as --image. *)
ExtractSaved ==
    /\ mode = "embed" /\ pc = "exit" /\ outcome = "Done"
    /\ mode' = "extract"
    /\ \E e \in Exts : args' = [image |-> args.output, output |-> e]
    /\ pc' = "check_image"
    /\ stego' = outfile
    /\ outcome' = "Running" /\ status' = -1
    /\ image' = <<>> /\ i_shape' = <<>> /\ i_size' = 0
    /\ secret' = <<>> /\ s_shape' = <<>> /\ s_size' = 0
    /\ exp_secret' = <<>> /\ metadata' = <<>> /\ data' = <<>>
    /\ outfile' = NoFile /\ loaded' = NoFile
    /\ UNCHANGED hidden

CheckImage == mode = "extract" /\ Gate("check_image", "image", FALSE, "check_extract_output")
CheckExtractOutput ==
    mode = "extract" /\ Gate("check_extract_output", "output", TRUE, "load_image")

LoadImage ==
    /\ mode = "extract" /\ pc = "load_image"
    /\ \E f \in (IF stego.none
                  THEN {File(CarrierShape(n), RawImage(n, hdr, 0)) :
                           n \in ImageSizes, hdr \in RawHeaders}
                  ELSE {stego}) :
          /\ image' = f.buf
          /\ i_size' = Len(f.buf)
          /\ loaded' = f
    /\ pc' = "read_header"
    /\ UNCHANGED <<mode, args, outcome, status, i_shape, secret, s_shape, s_size,
                   exp_secret, metadata, data, outfile, hidden, stego>>

(* metadata = compact(image[:5*8], 5), outside the try block *)
ReadHeader ==
    /\ mode = "extract" /\ pc = "read_header"
    /\ LET r == compact(Slice(image, 0, HeaderLen * BitsPerByte), HeaderLen)
       IN /\ image' = write_back(image, 0, r.view)
          /\ IF r.ok
             THEN metadata' = r.out /\ pc' = "decode_header"
                  /\ UNCHANGED <<outcome, status>>
             ELSE Raise /\ UNCHANGED metadata
    /\ UNCHANGED <<mode, args, i_shape, i_size, secret, s_shape, s_size,
                   exp_secret, data, outfile, History>>

DecodeHeader ==
    /\ mode = "extract" /\ pc = "decode_header"
    /\ s_shape' = decode_header(metadata)
    /\ s_size' = Prod(decode_header(metadata))
    /\ pc' = "read_payload"
    /\ UNCHANGED <<mode, args, outcome, status, image, i_shape, i_size, secret,
                   exp_secret, metadata, data, outfile, History>>

(* faulty variant: no handler, the exception propagates *)
on_payload_exception_propagates == "Fault"

(* what the except clause around the payload read does with any exception *)
on_payload_exception == "AbsentSecret"

(* np.tile of 8*size shifts is allocated before the view is touched; for a *)
(* size of Huge or more the allocation may fail (MemoryError).             *)
tile_may_fail(size) == size >= Huge

(* try: data = compact(image[5*8:(5+s_size)*8], s_size).reshape(s_shape) *)
ReadPayload ==
    /\ mode = "extract" /\ pc = "read_payload"
    /\ \E no_memory \in (IF tile_may_fail(s_size) THEN BOOLEAN ELSE {FALSE}) :
          LET lo == HeaderLen * BitsPerByte
              r == compact(Slice(image, lo, (HeaderLen + s_size) * BitsPerByte), s_size)
              raised == no_memory \/ ~r.ok \/ ~reshape_ok(r.out, s_shape)
          IN /\ image' = IF no_memory THEN image
                         ELSE write_back(image, Min(lo, Len(image)), r.view)
             /\ IF ~raised
                THEN data' = r.out /\ pc' = "save"
                     /\ UNCHANGED <<outcome, status>>
                ELSE /\ UNCHANGED data
                     /\ IF on_payload_exception = "AbsentSecret"
                        THEN Abort("AbsentSecret")
                        ELSE Raise
    /\ UNCHANGED <<mode, args, i_shape, i_size, secret, s_shape, s_size,
                   exp_secret, metadata, outfile, History>>

SaveExtract ==
    /\ mode = "extract" /\ pc = "save"
    /\ outfile' = File(s_shape, data)
    /\ outcome' = "Done" /\ status' = 0 /\ pc' = "exit"
    /\ UNCHANGED <<mode, args, Buffers, History>>

----------------------------------------------------------------------------
(* The header codec on its own *)

InitHeader ==
    /\ mode = "header"
    /\ args = [shape |-> "given"]
    /\ pc = "encode_header"
    /\ s_shape \in HeaderShapes
    /\ hidden = File(s_shape, <<>>)
    /\ outcome = "Running" /\ status = -1
    /\ image = <<>> /\ i_shape = <<>> /\ i_size = 0
    /\ secret = <<>> /\ s_size = 0
    /\ exp_secret = <<>> /\ metadata = <<>> /\ data = <<>>
    /\ outfile = NoFile /\ loaded = NoFile /\ stego = NoFile

HeaderEncode ==
    /\ mode = "header" /\ pc = "encode_header"
    /\ metadata' = encode_header(s_shape)
    /\ s_shape' = <<>>
    /\ pc' = "decode_header"
    /\ UNCHANGED <<mode, args, outcome, status, image, i_shape, i_size, secret,
                   s_size, exp_secret, data, outfile, History>>

HeaderDecode ==
    /\ mode = "header" /\ pc = "decode_header"
    /\ s_shape' = decode_header(metadata)
    /\ outcome' = "Done" /\ status' = 0 /\ pc' = "exit"
    /\ UNCHANGED <<mode, args, image, i_shape, i_size, secret, s_size,
                   exp_secret, metadata, data, outfile, History>>

NextHeader ==
    \/ HeaderEncode
    \/ HeaderDecode

SpecHeader == InitHeader /\ [][NextHeader]_vars

Next ==
    \/ ExtractSaved
    \/ CheckImage
    \/ CheckExtractOutput
    \/ LoadImage
    \/ ReadHeader
    \/ DecodeHeader
    \/ ReadPayload
    \/ SaveExtract
    \/ CheckCarrier
    \/ CheckSecret
    \/ CheckEmbedOutput
    \/ LoadCarrier
    \/ LoadSecret
    \/ BuildPayload
    \/ CapacityCheck
    \/ Expand
    \/ ClearLsb
    \/ OrBits
    \/ SaveEmbed

Spec == Init /\ [][Next]_vars

----------------------------------------------------------------------------
(* Properties.  They are stated on the buffers as loaded and as saved, in  *)
(* plain arithmetic, not through the operators of the model.               *)

BitOf(x, j) == (x \div (2 ^ j)) % 2
Lsb(buf, k) == buf[k] % 2
Shape3(sh) == IF Len(sh) = 2 THEN <<sh[1], sh[2], 1>> ELSE sh
HeaderOf(sh) ==
    << sh[1] \div 256, sh[1] % 256, sh[2] \div 256, sh[2] % 256, sh[3] >>
PayloadStream(f) == HeaderOf(Shape3(f.shape)) \o f.buf
RequiredFor(f) == 8 * (5 + Len(f.buf))

EmbedRun == mode = "embed" /\ ~loaded.none /\ ~hidden.none
EmbedDone == EmbedRun /\ pc = "exit" /\ outcome = "Done"
ExtractRun == mode = "extract" /\ ~loaded.none
(* A run is at "exit" exactly when it has ended; before that it stands at  *)
(* a position of its mode, each of which has its step.                     *)
Positions ==
    CASE mode = "embed" ->
            {"check_carrier", "check_secret", "check_embed_output", "load_carrier",
             "load_secret", "build_payload", "capacity", "expand", "clear_lsb",
             "or_bits", "save"}
      [] mode = "extract" ->
            {"check_image", "check_extract_output", "load_image", "read_header",
             "decode_header", "read_payload", "save"}
      [] OTHER -> {"encode_header", "decode_header"}
Progress ==
    IF outcome = "Running" THEN pc \in Positions /\ status = -1
    ELSE pc = "exit" /\ status \in {0, 1}

(* The shape and size the first 40 LSBs of the loaded image declare *)
DeclaredByte(i) ==
    LET b(j) == Lsb(loaded.buf, 8 * i + j + 1)
    IN b(0) + 2 * b(1) + 4 * b(2) + 8 * b(3) + 16 * b(4) + 32 * b(5)
       + 64 * b(6) + 128 * b(7)
DeclaredShape ==
    << DeclaredByte(0) * 256 + DeclaredByte(1),
       DeclaredByte(2) * 256 + DeclaredByte(3),
       DeclaredByte(4) >>
DeclaredSize == Mul(DeclaredShape[1], Mul(DeclaredShape[2], DeclaredShape[3]))
DeclaredRequired == 8 * (5 + DeclaredSize)

NonDestructive ==
    EmbedDone =>
        /\ Len(outfile.buf) = Len(loaded.buf)
        /\ outfile.shape = loaded.shape
        /\ image = outfile.buf
        /\ \A k \in 1..Len(loaded.buf) :
              IF k <= RequiredFor(hidden)
              THEN outfile.buf[k] \div 2 = loaded.buf[k] \div 2
              ELSE outfile.buf[k] = loaded.buf[k]

NonDestructiveWitness ==
    /\ EmbedDone
    /\ Len(loaded.buf) > RequiredFor(hidden)
    /\ \E k \in 1..RequiredFor(hidden) : outfile.buf[k] # loaded.buf[k]
    /\ \E k \in 1..RequiredFor(hidden) : loaded.buf[k] > 1

(* C3: capacity boundary.  Once the capacity check has run, the embed has  *)
(* ended with SecretTooLarge and exit status 1 if the carrier has fewer    *)
(* than 8*(5+h*w*c) elements, and otherwise goes on to Done, exit status 0 *)
(* and a written output.                                                   *)
CapacityBoundary ==
    (EmbedRun /\ pc \in {"expand", "clear_lsb", "or_bits", "save", "exit"}) =>
        IF Len(loaded.buf) < 8 * (5 + Prod(Shape3(hidden.shape)))
        THEN outcome = "SecretTooLarge" /\ status = 1 /\ pc = "exit"
        ELSE /\ outcome \in {"Running", "Done"}
             /\ Progress
             /\ pc = "exit" => outcome = "Done" /\ status = 0 /\ ~outfile.none

CapacityBoundaryWitness ==
    /\ EmbedDone /\ status = 0
    /\ Len(loaded.buf) = 8 * (5 + Prod(Shape3(hidden.shape)))
    /\ Len(hidden.shape) = 2

(* C4: embed atomicity.  The step that ends a run with SecretTooLarge is   *)
(* the capacity check, taken with the working buffer as loaded and nothing *)
(* written; the working buffer is modified only in runs whose carrier has  *)
(* the capacity; and the output is written only then, with the LSBs of the *)
(* whole prefix of 8*(5+|S|) elements holding the payload bits.            *)
FullyEmbedded(buf) ==
    /\ Len(buf) >= RequiredFor(hidden)
    /\ \A k \in 1..RequiredFor(hidden) :
          Lsb(buf, k) = BitOf(PayloadStream(hidden)[((k - 1) \div 8) + 1], (k - 1) % 8)

EmbedAtomicStep ==
    (mode = "embed" /\ mode' = "embed") =>
        /\ (outcome' = "SecretTooLarge" /\ outcome # "SecretTooLarge") =>
              /\ pc = "capacity"
              /\ image = loaded.buf /\ image' = loaded.buf
              /\ outfile = NoFile /\ outfile' = NoFile
        /\ (image' # image /\ pc # "load_carrier") =>
              /\ ~hidden.none
              /\ Len(loaded.buf) >= RequiredFor(hidden)
        /\ outfile' # outfile =>
              /\ ~hidden.none
              /\ Len(loaded.buf) >= RequiredFor(hidden)
              /\ FullyEmbedded(outfile'.buf)

EmbedAtomicity == [][EmbedAtomicStep]_vars

EmbedAtomicityWitness ==
    /\ EmbedRun /\ outcome = "SecretTooLarge" /\ pc = "exit"
    /\ Len(loaded.buf) = RequiredFor(hidden) - 1
    /\ image = loaded.buf /\ outfile = NoFile

(* C5: oversized declared geometry.  When the loaded image has at least 40 *)
(* elements and the header in its first 40 LSBs declares (h,w,c) with      *)
(* (5+h*w*c)*8 above the element count, extract ends in AbsentSecret with  *)
(* exit status 1 and never writes an output.                               *)
OversizedGeometry ==
    (ExtractRun /\ Len(loaded.buf) >= 40 /\ DeclaredRequired > Len(loaded.buf)) =>
        /\ outcome \in {"Running", "AbsentSecret"}
        /\ Progress
        /\ pc # "save"
        /\ outfile = NoFile
        /\ pc = "exit" => outcome = "AbsentSecret" /\ status = 1

OversizedGeometryWitness ==
    /\ ExtractRun /\ Len(loaded.buf) >= 40
    /\ DeclaredRequired = Len(loaded.buf) + 1
    /\ outcome = "AbsentSecret" /\ status = 1 /\ outfile = NoFile

(* C6: extraction has exactly two outcomes.  Whatever the loaded image, an *)
(* extract run that got past the file type gate ends either in Done, with  *)
(* a buffer of the decoded shape and of length h*w*c, or in AbsentSecret;  *)
(* never in an uncaught fault.                                             *)
ExtractTwoOutcomes ==
    (ExtractRun /\ pc = "exit") =>
        \/ outcome = "AbsentSecret"
        \/ /\ outcome = "Done"
           /\ outfile.shape = DeclaredShape
           /\ Len(outfile.buf) = DeclaredSize

(* C7: header round trip.  For 0 <= h,w <= 65535 and 0 <= c <= 255 the     *)
(* encoded header is [h div 256, h mod 256, w div 256, w mod 256, c], each *)
(* a byte, and decoding it returns (h, w, c).                              *)
HeaderRoundTrip ==
    mode = "header" =>
        /\ hidden.shape[1] \in 0..65535 /\ hidden.shape[2] \in 0..65535
        /\ hidden.shape[3] \in 0..255
        /\ pc # "encode_header" =>
              /\ metadata = HeaderOf(hidden.shape)
              /\ \A i \in 1..5 : metadata[i] \in 0..255
        /\ pc = "exit" => s_shape = hidden.shape

HeaderRoundTripWitness ==
    /\ mode = "header" /\ pc = "exit"
    /\ hidden.shape = <<65535, 65535, 255>>
    /\ s_shape = <<65535, 65535, 255>>

Compacted(k) == (loaded.buf[k] % 2) * (2 ^ ((k - 1) % 8))
Masked(k) == loaded.buf[k] % 2
Left(how, k) ==
    CASE how = "compacted" -> Compacted(k)
      [] how = "masked" -> Masked(k)
      [] OTHER -> loaded.buf[k]
WorkingCopy(header, payload) ==
    [k \in 1..Len(loaded.buf) |->
        IF k <= 40 THEN Left(header, k)
        ELSE IF k <= 8 * (5 + s_size) THEN Left(payload, k)
        ELSE loaded.buf[k]]
AllFormats == {"png", "bmp", "tiff", "ppm", "pgm", "pbm", "jpg", "jpeg", "webp"}
LosslessFormats == {"png", "bmp", "tiff", "ppm", "pgm", "pbm"}
Rejected ==
    CASE mode = "embed" ->
            \/ args.carrier \notin AllFormats
            \/ args.secret \notin AllFormats
            \/ args.output \notin LosslessFormats
      [] mode = "extract" ->
            \/ args.image \notin LosslessFormats
            \/ args.output \notin AllFormats
      [] OTHER -> FALSE
GatePositions ==
    {"check_carrier", "check_secret", "check_embed_output",
     "check_image", "check_extract_output"}
FileTypeGate ==
    /\ Progress
    /\ Rejected =>
          /\ pc \in GatePositions \/ pc = "exit"
          /\ pc = "exit" => outcome = "UnsupportedFileType" /\ status = 1
          /\ loaded.none /\ image = <<>> /\ secret = <<>> /\ outfile = NoFile
    /\ ~Rejected => outcome # "UnsupportedFileType"
    /\ outcome = "UnsupportedFileType" => loaded.none /\ outfile = NoFile

FileTypeGateWitness ==
    /\ mode = "embed" /\ outcome = "UnsupportedFileType" /\ status = 1
    /\ args.carrier = "jpg" /\ args.secret = "jpg" /\ args.output = "jpg"

(* C10: bit layout.  After a successful embed, with P the 5 header bytes   *)
(* followed by the flattened secret, the LSB of carrier element 8*i+j is   *)
(* bit j of P[i] (bit 0 least significant), whatever the LSB was before.   *)
BitLayout ==
    EmbedDone =>
        LET P == PayloadStream(hidden)
        IN /\ Len(P) = 5 + Len(hidden.buf)
           /\ \A i \in 0..(Len(P) - 1) : \A j \in 0..7 :
                 Lsb(outfile.buf, 8 * i + j + 1) = BitOf(P[i + 1], j)

BitLayoutWitness ==
    /\ EmbedDone
    /\ \E k \in 1..RequiredFor(hidden) : Lsb(loaded.buf, k) = 0 /\ Lsb(outfile.buf, k) = 1
    /\ \E k \in 1..RequiredFor(hidden) : Lsb(loaded.buf, k) = 1 /\ Lsb(outfile.buf, k) = 0
    /\ \E k \in 1..RequiredFor(hidden) : Lsb(loaded.buf, k) = Lsb(outfile.buf, k)
====
